---- MODULE Spec2Model ----
(***************************************************************************)
(* Model of the Dash plugin's history store (ZimDashHistory in dash.py)    *)
(* and of the dialog session that owns it (do_show_dash_dialog).           *)
(*                                                                         *)
(* The backing store is the file HISTORY_FILE.  A dialog session is        *)
(* constructed from it (ZimDashHistory.__init__ / _load), is driven by     *)
(* current(), next(), previous() and update(), and is discarded when the   *)
(* dialog is dismissed.                                                    *)
(***************************************************************************)
EXTENDS Integers, Sequences, FiniteSets, TLC

VARIABLES
    store,              \* content of HISTORY_FILE
    open,               \* a dialog session (a ZimDashHistory object) exists
    history_whitelist,  \* self.history_whitelist (only membership is used)
    history_size,       \* self.history_size, the deque's maxlen
    history,            \* self.history, the deque, leftmost entry first
    op,                 \* the last call made
    prior,              \* the call made before it
    arg,                \* its argument (update's new_entry), else None
    ret,                \* its return value, None when it returns nothing
    err,                \* an exception of the last call reached its caller
    outcome,            \* what the write of the last update() did
    before,             \* self.history as it was when the last call began
    log,                \* update() arguments since an empty construction
    tracked,            \* log holds every call made since that construction
    following,          \* mru is kept (it is in the runs of SpecRecency)
    mru,                \* the record's labels by their last use: loaded in
                        \* stored order, then moved to the front by update()
    \* ZimDashDialog (runs of SpecDialog)
    entries,            \* self.entries, { label: action }
    txt_search,         \* the text of self.txt_search
    btn_ok,             \* self.btn_ok is sensitive
    history_activated,  \* self.history_activated
    action,             \* self.action
    result,             \* self.result
    invoked,            \* the action do_show_dash_dialog called
    dlg,                \* the last event the dialog handled
    loaded,             \* self.history as constructed
    nav,                \* the history events handled since then
    \* ZimMenuBarCrawler (runs of SpecCrawl)
    menu_bar,           \* the host's menu items, by their position
    crawled,            \* what run(menu_bar) returned last
    \* two dialogs on one file (runs of SpecTwo)
    sess,               \* the ZimDashHistory object of each dialog
    who,                \* the dialog that made the last call
    wrote               \* the dialogs whose update() wrote the file

vars == <<store, open, history_whitelist, history_size, history,
          op, prior, arg, ret, err, outcome, before, log, tracked,
          following, mru,
          entries, txt_search, btn_ok, history_activated, action, result,
          invoked, dlg, loaded, nav,
          menu_bar, crawled, sess, who, wrote>>

dialogVars == <<entries, txt_search, btn_ok, history_activated, action,
                result, invoked, dlg, loaded, nav>>

crawlVars == <<menu_bar, crawled>>

twoVars == <<sess, who, wrote>>


(***************************************************************************)
(* Bounds and program constants                                            *)
(***************************************************************************)
HISTORY_SIZE_MIN == 1
HISTORY_SIZE_MAX == 99

\* largest capacity a session of the model is constructed with
MaxSize == 3
\* longest list the backing store holds initially
MaxStored == 3
\* longest sequence of update() arguments that log follows
MaxLog == 4

\* breadcrumb labels; a session's whitelist is any subset of them
Labels == {"a", "b", "c"}

\* Python's None
None == "None"

Sizes == {n \in HISTORY_SIZE_MIN..HISTORY_SIZE_MAX : n <= MaxSize}

(***************************************************************************)
(* Sequences                                                               *)
(***************************************************************************)
Range(s) == {s[i] : i \in 1..Len(s)}

Distinct(s) == \A i, j \in 1..Len(s) : i # j => s[i] # s[j]

FirstN(s, n) == IF Len(s) <= n THEN s ELSE SubSeq(s, 1, n)

Without(s, x) == SelectSeq(s, LAMBDA e : e # x)

Min(m, n) == IF m <= n THEN m ELSE n

(***************************************************************************)
(* collections.deque                                                       *)
(***************************************************************************)
\* deque(iterable, maxlen): the items are appended on the right one by one,
\* and a full deque drops its leftmost item, so the last maxlen items stay
deque(items, maxlen) ==
    IF Len(items) <= maxlen THEN items
    ELSE SubSeq(items, Len(items) - maxlen + 1, Len(items))

\* deque.rotate(-1): one step to the left, the first item goes to the end
rotate_left(d) == IF d = <<>> THEN d ELSE Tail(d) \o <<Head(d)>>

\* deque.rotate(+1): one step to the right, the last item goes to the front
rotate_right(d) ==
    IF d = <<>> THEN d ELSE <<d[Len(d)]>> \o SubSeq(d, 1, Len(d) - 1)

\* faulty variant: appendleft on a deque constructed without maxlen
appendleft_unbounded(d, x, maxlen) == <<x>> \o d

\* faulty variant: deque.append(x), the new item goes to the right end and
\* a full deque drops its leftmost item
append_right(d, x, maxlen) ==
    IF Len(d) >= maxlen THEN SubSeq(d, 2, Len(d)) \o <<x>>
    ELSE d \o <<x>>

\* deque.appendleft(x) on a deque of the given maxlen: a full deque drops
\* its rightmost item
appendleft(d, x, maxlen) ==
    IF Len(d) >= maxlen THEN <<x>> \o SubSeq(d, 1, maxlen - 1)
    ELSE <<x>> \o d

(***************************************************************************)
(* The backing store                                                       *)
(***************************************************************************)
\* what HISTORY_FILE can be: no regular file, a file that cannot be opened
\* for reading, a file that is not JSON, JSON without a "history" member,
\* or {"history": [...]}
StoreKinds == {"absent", "unreadable", "notjson", "nofield", "list"}

File(kind, items) == [kind |-> kind, items |-> items]

RECURSIVE SeqsUpTo(_, _)
SeqsUpTo(S, n) ==
    IF n = 0 THEN {<<>>}
    ELSE LET shorter == SeqsUpTo(S, n - 1)
         IN  shorter \cup {Append(s, x) : s \in shorter, x \in S}

\* every content of the file the model starts from: hand-edited lists may
\* repeat a label and may hold labels no whitelist has
Stores ==
    {File(k, <<>>) : k \in StoreKinds \ {"list"}}
        \cup {File("list", s) : s \in SeqsUpTo(Labels, MaxStored)}

\* the exceptions the model raises; all are subclasses of Exception
ExceptionSubclasses == {"OSError", "JSONDecodeError", "KeyError"}

\* the exception the body of _load's try block raises on this file
load_raises(s) ==
    CASE s.kind = "unreadable" -> "OSError"
      [] s.kind = "notjson"    -> "JSONDecodeError"
      [] s.kind = "nofield"    -> "KeyError"
      [] OTHER                 -> None

\* faulty variant: except json.decoder.JSONDecodeError alone
load_catches_json_only(exc) == exc = "JSONDecodeError"

\* except (Exception, json.decoder.JSONDecodeError) in _load
load_catches(exc) == exc \in ExceptionSubclasses

\* faulty variant: the stored entries are taken over without the whitelist
history_entries_all(s, whitelist) == s.items

\* [entry for entry in data["history"] if entry in self.history_whitelist]
history_entries(s, whitelist) ==
    SelectSeq(s.items, LAMBDA entry : entry \in whitelist)

\* faulty variant: the stored entries are returned as they are
_load_unfiltered(s, whitelist) ==
    IF s.kind = "list"
    THEN [entries |-> s.items, raised |-> FALSE, store |-> s]
    ELSE [entries |-> <<>>, raised |-> FALSE, store |-> s]

\* faulty variant: a missing or unusable file is replaced by an empty history
_load_creating(s, whitelist) ==
    IF s.kind = "list"
    THEN [entries |-> history_entries(s, whitelist), raised |-> FALSE,
          store |-> s]
    ELSE [entries |-> <<>>, raised |-> FALSE, store |-> File("list", <<>>)]

\* ZimDashHistory._load: the list it returns, whether it raised, and the
\* file afterwards (os.path.isfile and open() for reading leave it alone)
_load(s, whitelist) ==
    IF s.kind = "absent"
    THEN [entries |-> <<>>, raised |-> FALSE, store |-> s]
    ELSE IF load_raises(s) = None
         THEN [entries |-> history_entries(s, whitelist), raised |-> FALSE,
               store |-> s]
         ELSE IF load_catches(load_raises(s))
              THEN [entries |-> <<>>, raised |-> FALSE, store |-> s]
              ELSE [entries |-> <<>>, raised |-> TRUE, store |-> s]

\* what the write in _save can do: succeed, fail in open() before the file
\* is touched, or fail in json.dump()/close after open() truncated it
SaveOutcomes == {"ok", "openfail", "dumpfail"}

save_raises(o) == IF o = "ok" THEN None ELSE "OSError"

\* faulty variant: the record is merged into the list the file holds
_save_merging(h, s, o) ==
    [store  |-> CASE o = "ok"       ->
                    File("list",
                         h \o SelectSeq(s.items,
                                        LAMBDA e : e \notin Range(h)))
                  [] o = "openfail" -> s
                  [] o = "dumpfail" -> File("notjson", <<>>),
     raised |-> FALSE]

\* faulty variant: _save without its try/except
save_catches_nothing(exc) == FALSE

\* except Exception in _save
save_catches(exc) == exc \in ExceptionSubclasses

\* ZimDashHistory._save: the file afterwards and whether it raised
_save(h, s, o) ==
    [store  |-> CASE o = "ok"       -> File("list", h)
                  [] o = "openfail" -> s
                  [] o = "dumpfail" -> File("notjson", <<>>),
     raised |-> save_raises(o) # None /\ ~save_catches(save_raises(o))]

(***************************************************************************)
(* ZimDashHistory                                                          *)
(***************************************************************************)
\* __init__: self.history = deque(self._load(), maxlen=history_size)
__init__(s, size, whitelist) ==
    [history |-> deque(_load(s, whitelist).entries, size),
     raised  |-> _load(s, whitelist).raised,
     store   |-> _load(s, whitelist).store]

current(h) == IF h = <<>> THEN None ELSE h[1]

next(h) ==
    IF h = <<>> THEN [history |-> h, ret |-> None]
    ELSE [history |-> rotate_left(h), ret |-> rotate_left(h)[1]]

\* faulty variant: previous() rotates the same way next() does
previous_rotating_left(h) ==
    IF h = <<>> THEN [history |-> h, ret |-> None]
    ELSE [history |-> rotate_left(h), ret |-> rotate_left(h)[1]]

previous(h) ==
    IF h = <<>> THEN [history |-> h, ret |-> None]
    ELSE [history |-> rotate_right(h), ret |-> rotate_right(h)[1]]

\* faulty variant: the existing occurrence of new_entry is not removed
promote_nofilter(h, new_entry, size) ==
    appendleft(deque(h, size), new_entry, size)

\* deque(filter(lambda entry: entry != new_entry, self.history), maxlen=...)
\* followed by appendleft(new_entry)
promote(h, new_entry, size) ==
    appendleft(deque(SelectSeq(h, LAMBDA entry : entry # new_entry), size),
               new_entry, size)

\* faulty variant: update() without the whitelist test
update_unchecked(h, s, size, whitelist, new_entry, o) ==
    [history |-> promote(h, new_entry, size),
     store   |-> _save(promote(h, new_entry, size), s, o).store,
     raised  |-> _save(promote(h, new_entry, size), s, o).raised,
     outcome |-> o]

\* ZimDashHistory.update
update(h, s, size, whitelist, new_entry, o) ==
    IF new_entry \in whitelist
    THEN [history |-> promote(h, new_entry, size),
          store   |-> _save(promote(h, new_entry, size), s, o).store,
          raised  |-> _save(promote(h, new_entry, size), s, o).raised,
          outcome |-> o]
    ELSE [history |-> h, store |-> s, raised |-> FALSE, outcome |-> "none"]

(***************************************************************************)
(* State machine                                                           *)
(***************************************************************************)
\* no dialog has been constructed
DialogIdle ==
    /\ entries = <<>>
    /\ txt_search = ""
    /\ btn_ok = FALSE
    /\ history_activated = FALSE
    /\ action = None
    /\ result = "none"
    /\ invoked = None
    /\ dlg = "init"
    /\ loaded = <<>>
    /\ nav = <<>>

\* no menu bar has been crawled
CrawlIdle ==
    /\ menu_bar = <<>>
    /\ crawled = [ran |-> FALSE, result |-> <<>>]

\* no second dialog exists
TwoIdle ==
    /\ sess = <<>>
    /\ who = 0
    /\ wrote = {}

\* no ZimDashHistory has been constructed
HistoryIdle ==
    /\ open = FALSE
    /\ history_whitelist = {}
    /\ history_size = HISTORY_SIZE_MIN
    /\ history = <<>>
    /\ op = "init"
    /\ prior = "init"
    /\ arg = None
    /\ ret = None
    /\ err = FALSE
    /\ outcome = "none"
    /\ before = <<>>
    /\ log = <<>>
    /\ tracked = FALSE

Init ==
    /\ store \in Stores
    /\ HistoryIdle
    /\ following = FALSE
    /\ mru = <<>>
    /\ DialogIdle
    /\ CrawlIdle
    /\ TwoIdle

\* the file does not exist before the plugin is used for the first time
InitFresh ==
    /\ Init
    /\ store = File("absent", <<>>)

\* the same, in runs that keep mru
InitRecency ==
    /\ store = File("absent", <<>>)
    /\ HistoryIdle
    /\ following = TRUE
    /\ mru = <<>>
    /\ DialogIdle
    /\ CrawlIdle
    /\ TwoIdle

\* do_show_dash_dialog: a fresh crawl gives the whitelist, the preference
\* gives the capacity, and ZimDashHistory is constructed from the file
ShowDashDialog(size, whitelist) ==
    /\ ~open
    /\ open' = TRUE
    /\ history_whitelist' = whitelist
    /\ history_size' = size
    /\ history' = __init__(store, size, whitelist).history
    /\ err' = __init__(store, size, whitelist).raised
    /\ op' = "load"
    /\ prior' = op
    /\ arg' = None
    /\ ret' = None
    /\ outcome' = "none"
    /\ before' = <<>>
    /\ log' = <<>>
    /\ tracked' = (history' = <<>>)
    /\ store' = __init__(store, size, whitelist).store
    /\ mru' = IF following THEN history' ELSE mru
    /\ UNCHANGED <<following, dialogVars, crawlVars, twoVars>>

Current ==
    /\ open
    /\ op' = "current"
    /\ prior' = op
    /\ arg' = None
    /\ ret' = current(history)
    /\ err' = FALSE
    /\ outcome' = "none"
    /\ before' = history
    /\ UNCHANGED <<store, open, history_whitelist, history_size, history,
                   log, tracked, following, mru,
                   dialogVars, crawlVars, twoVars>>

NextEntry ==
    /\ open
    /\ history' = next(history).history
    /\ op' = "next"
    /\ prior' = op
    /\ arg' = None
    /\ ret' = next(history).ret
    /\ err' = FALSE
    /\ outcome' = "none"
    /\ before' = history
    /\ log' = <<>>
    /\ tracked' = FALSE
    /\ UNCHANGED <<store, open, history_whitelist, history_size,
                   following, mru, dialogVars, crawlVars, twoVars>>

PreviousEntry ==
    /\ open
    /\ history' = previous(history).history
    /\ op' = "previous"
    /\ prior' = op
    /\ arg' = None
    /\ ret' = previous(history).ret
    /\ err' = FALSE
    /\ outcome' = "none"
    /\ before' = history
    /\ log' = <<>>
    /\ tracked' = FALSE
    /\ UNCHANGED <<store, open, history_whitelist, history_size,
                   following, mru, dialogVars, crawlVars, twoVars>>

Update(new_entry, o) ==
    /\ open
    /\ LET u == update(history, store, history_size, history_whitelist,
                       new_entry, o)
       IN  /\ history' = u.history
           /\ store' = u.store
           /\ err' = u.raised
           /\ outcome' = u.outcome
    /\ op' = "update"
    /\ prior' = op
    /\ arg' = new_entry
    /\ ret' = None
    /\ before' = history
    /\ IF tracked /\ new_entry \in history_whitelist /\ Len(log) < MaxLog
       THEN /\ log' = Append(log, new_entry)
            /\ tracked' = TRUE
       ELSE /\ log' = <<>>
            /\ tracked' = FALSE
    /\ mru' = IF following /\ new_entry \in history_whitelist
              THEN IF Len(mru) >= history_size /\ new_entry \notin Range(mru)
                   THEN <<new_entry>> \o SubSeq(mru, 1, history_size - 1)
                   ELSE <<new_entry>> \o Without(mru, new_entry)
              ELSE mru
    /\ UNCHANGED <<open, history_whitelist, history_size, following,
                   dialogVars, crawlVars, twoVars>>

\* dialog.run() returns without Gtk.ResponseType.OK: the session's objects
\* are dropped and nothing else happens
Dismiss ==
    /\ open
    /\ open' = FALSE
    /\ history_whitelist' = {}
    /\ history_size' = HISTORY_SIZE_MIN
    /\ history' = <<>>
    /\ op' = "dismiss"
    /\ prior' = op
    /\ arg' = None
    /\ ret' = None
    /\ err' = FALSE
    /\ outcome' = "none"
    /\ before' = <<>>
    /\ log' = <<>>
    /\ tracked' = FALSE
    /\ mru' = <<>>
    /\ UNCHANGED <<store, following, dialogVars, crawlVars, twoVars>>

Next ==
    \/ \E size \in Sizes, whitelist \in SUBSET Labels :
           ShowDashDialog(size, whitelist)
    \/ Current
    \/ NextEntry
    \/ PreviousEntry
    \/ \E new_entry \in Labels, o \in SaveOutcomes : Update(new_entry, o)
    \/ Dismiss

Spec == Init /\ [][Next]_vars

SpecFresh == InitFresh /\ [][Next]_vars

SpecRecency == InitRecency /\ [][Next]_vars

(***************************************************************************)
(* ZimDashDialog                                                           *)
(***************************************************************************)
\* longest run of history events that nav follows
MaxNav == 4

\* what the search field can hold: nothing, a label, or a text that is the
\* label of no menu item
Texts == Labels \cup {"", "x"}

\* the activate method of the menu item whose breadcrumb is label
activate(label) == <<"activate", label>>

\* do_validate: the OK button is sensitive when the text is a key
do_validate(text, ents) == text \in DOMAIN ents

\* if history_entry: self.txt_search.set_text(history_entry)
set_text(history_entry, text) ==
    IF history_entry # None /\ history_entry # "" THEN history_entry
    ELSE text

\* faulty variant: every forward event calls next()
do_show_next_history_entry_rotating(h, activated) ==
    [history |-> next(h).history, entry |-> next(h).ret, call |-> "next"]

\* do_show_next_history_entry: the call it makes, the record afterwards and
\* the entry it got
do_show_next_history_entry(h, activated) ==
    IF ~activated
    THEN [history |-> h, entry |-> current(h), call |-> "current"]
    ELSE [history |-> next(h).history, entry |-> next(h).ret,
          call |-> "next"]

\* do_show_previous_history_entry
do_show_previous_history_entry(h) ==
    [history |-> previous(h).history, entry |-> previous(h).ret,
     call |-> "previous"]

\* faulty variant: the history is updated with the previous action's label
do_response_ok_stale(text, ents, act, h, s, size, whitelist, o) ==
    IF text \in DOMAIN ents
    THEN LET u == update(h, s, size, whitelist, current(h), o)
         IN  [action |-> ents[text], history |-> u.history,
              store |-> u.store, raised |-> u.raised,
              outcome |-> u.outcome, result |-> "OK", ok |-> TRUE]
    ELSE [action |-> act, history |-> h, store |-> s, raised |-> FALSE,
          outcome |-> "none", result |-> "none", ok |-> FALSE]

\* faulty variant: the text is committed without the test against entries
do_response_ok_unchecked(text, ents, act, h, s, size, whitelist, o) ==
    LET u == update(h, s, size, Labels \cup {text}, text, o)
    IN  [action |-> IF text \in DOMAIN ents THEN ents[text] ELSE act,
         history |-> u.history, store |-> u.store, raised |-> u.raised,
         outcome |-> u.outcome, result |-> "OK", ok |-> TRUE]

\* do_response_ok: self.action, self.result, the history and the file
\* afterwards, and its return value
do_response_ok(text, ents, act, h, s, size, whitelist, o) ==
    IF text \in DOMAIN ents
    THEN LET u == update(h, s, size, whitelist, text, o)
         IN  [action |-> ents[text], history |-> u.history,
              store |-> u.store, raised |-> u.raised,
              outcome |-> u.outcome, result |-> "OK", ok |-> TRUE]
    ELSE [action |-> act, history |-> h, store |-> s, raised |-> FALSE,
          outcome |-> "none", result |-> "none", ok |-> FALSE]

\* the variables that only the runs of the other specifications change
DialogFrame == UNCHANGED <<log, tracked, following, mru, crawlVars, twoVars>>

\* the event calls no method of the history
NoHistoryCall ==
    UNCHANGED <<store, open, history_whitelist, history_size, history,
                op, prior, arg, ret, err, outcome, before>>

\* nav after one more history event
Followed(event) ==
    IF nav = <<>> THEN <<event>>
    ELSE IF event = "forward" /\ Len(nav) < MaxNav
            /\ \A i \in 1..Len(nav) : nav[i] = "forward"
         THEN Append(nav, event)
         ELSE <<"mixed">>

\* do_show_dash_dialog up to dialog.run(): the store of menu items, the
\* whitelist from its labels, the history and the dialog
DlgShow(size, whitelist) ==
    /\ ~open
    /\ open' = TRUE
    /\ history_whitelist' = whitelist
    /\ history_size' = size
    /\ history' = __init__(store, size, whitelist).history
    /\ err' = __init__(store, size, whitelist).raised
    /\ store' = __init__(store, size, whitelist).store
    /\ op' = "load"
    /\ prior' = op
    /\ arg' = None
    /\ ret' = None
    /\ outcome' = "none"
    /\ before' = <<>>
    /\ entries' = [label \in whitelist |-> activate(label)]
    /\ txt_search' = ""
    /\ btn_ok' = FALSE
    /\ history_activated' = FALSE
    /\ action' = None
    /\ result' = "none"
    /\ invoked' = None
    /\ dlg' = "show"
    /\ loaded' = history'
    /\ nav' = <<>>
    /\ DialogFrame

\* the user edits the search field; "changed" runs do_validate
DlgType(text) ==
    /\ open /\ result = "none"
    /\ txt_search' = text
    /\ btn_ok' = do_validate(text, entries)
    /\ dlg' = "type"
    /\ NoHistoryCall
    /\ UNCHANGED <<entries, history_activated, action, result, invoked,
                   loaded, nav>>
    /\ DialogFrame

\* Ctrl+Tab or the Next button
DlgForward ==
    /\ open /\ result = "none"
    /\ LET e == do_show_next_history_entry(history, history_activated)
       IN  /\ history' = e.history
           /\ op' = e.call
           /\ ret' = e.entry
           /\ txt_search' = set_text(e.entry, txt_search)
    /\ btn_ok' = do_validate(txt_search', entries)
    /\ history_activated' = TRUE
    /\ prior' = op
    /\ arg' = None
    /\ err' = FALSE
    /\ outcome' = "none"
    /\ before' = history
    /\ dlg' = "forward"
    /\ nav' = Followed("forward")
    /\ UNCHANGED <<store, open, history_whitelist, history_size,
                   entries, action, result, invoked, loaded>>
    /\ DialogFrame

\* Ctrl+Shift+Tab or the Previous button
DlgBackward ==
    /\ open /\ result = "none"
    /\ LET e == do_show_previous_history_entry(history)
       IN  /\ history' = e.history
           /\ op' = e.call
           /\ ret' = e.entry
           /\ txt_search' = set_text(e.entry, txt_search)
    /\ btn_ok' = do_validate(txt_search', entries)
    /\ history_activated' = TRUE
    /\ prior' = op
    /\ arg' = None
    /\ err' = FALSE
    /\ outcome' = "none"
    /\ before' = history
    /\ dlg' = "backward"
    /\ nav' = Followed("backward")
    /\ UNCHANGED <<store, open, history_whitelist, history_size,
                   entries, action, result, invoked, loaded>>
    /\ DialogFrame

\* what do_response_ok does to the state, on the given text
ResponseOk(text, o) ==
    LET r == do_response_ok(text, entries, action, history, store,
                            history_size, history_whitelist, o)
    IN  /\ action' = r.action
        /\ result' = r.result
        /\ history' = r.history
        /\ store' = r.store
        /\ err' = r.raised
        /\ outcome' = r.outcome
        /\ IF r.ok
           THEN /\ op' = "update"
                /\ prior' = op
                /\ arg' = text
                /\ ret' = None
                /\ before' = history
           ELSE UNCHANGED <<op, prior, arg, ret, before>>

\* the OK response: do_response_ok runs on the text of the search field
DlgConfirm(o) ==
    /\ open /\ result = "none"
    /\ ResponseOk(txt_search, o)
    /\ dlg' = "confirm"
    /\ UNCHANGED <<open, history_whitelist, history_size, entries,
                   txt_search, btn_ok, history_activated, invoked, loaded,
                   nav>>
    /\ DialogFrame

\* on_match_selected: an entry of the completion list is chosen
DlgMatch(label, o) ==
    /\ open /\ result = "none"
    /\ label \in DOMAIN entries
    /\ txt_search' = label
    /\ btn_ok' = do_validate(label, entries)
    /\ ResponseOk(label, o)
    /\ dlg' = "match"
    /\ UNCHANGED <<open, history_whitelist, history_size, entries,
                   history_activated, invoked, loaded, nav>>
    /\ DialogFrame

\* the objects of the dialog are dropped
DialogGone ==
    /\ open' = FALSE
    /\ history_whitelist' = {}
    /\ history_size' = HISTORY_SIZE_MIN
    /\ history' = <<>>
    /\ op' = "dismiss"
    /\ prior' = op
    /\ arg' = None
    /\ ret' = None
    /\ err' = FALSE
    /\ outcome' = "none"
    /\ before' = <<>>
    /\ entries' = <<>>
    /\ txt_search' = ""
    /\ btn_ok' = FALSE
    /\ history_activated' = FALSE
    /\ loaded' = <<>>
    /\ nav' = <<>>
    /\ UNCHANGED store

\* dialog.run() == Gtk.ResponseType.OK: dialog.action() is called
DlgReturn ==
    /\ open /\ result = "OK"
    /\ invoked' = action
    /\ dlg' = "return"
    /\ DialogGone
    /\ UNCHANGED <<action, result>>
    /\ DialogFrame

\* the dialog is closed without the OK response
DlgDismiss ==
    /\ open /\ result = "none"
    /\ invoked' = None
    /\ dlg' = "dismiss"
    /\ DialogGone
    /\ UNCHANGED <<action, result>>
    /\ DialogFrame

NextDialog ==
    \/ \E size \in Sizes, whitelist \in SUBSET Labels :
           DlgShow(size, whitelist)
    \/ \E text \in Texts : DlgType(text)
    \/ DlgForward
    \/ DlgBackward
    \/ \E o \in SaveOutcomes : DlgConfirm(o)
    \/ \E label \in Labels, o \in SaveOutcomes : DlgMatch(label, o)
    \/ DlgReturn
    \/ DlgDismiss

\* the file is absent or holds a list that update() can have written
InitDialog ==
    /\ Init
    /\ store.kind \in {"absent", "list"}
    /\ Distinct(store.items)

SpecDialog == InitDialog /\ [][NextDialog]_vars

(***************************************************************************)
(* ZimMenuBarCrawler                                                       *)
(*                                                                         *)
(* menu_bar maps the position of every menu item (its index among the      *)
(* top-level items, then the index in each submenu on the way down) to the *)
(* item.  A label is a sequence of characters.                             *)
(***************************************************************************)
\* most menu items a menu bar of the model has
MaxItems == 3

\* an item's label: none (no get_label, or get_label() is None), or a text
NoLabel == [has |-> FALSE, text |-> <<>>]

Label(text) == [has |-> TRUE, text |-> text]

MenuLabels ==
    {NoLabel, Label(<<>>), Label(<<"s">>), Label(<<"_", "s">>),
     Label(<<"f">>)}

\* an item with its label; submenu says whether get_submenu() returns a menu
\* (its children are the items one position further down, possibly none)
MenuItem(label, submenu) == [label |-> label, submenu |-> submenu]

\* faulty variant: every item is taken, labelled or not
get_label_any(item) == TRUE

\* hasattr(child, "get_label") and child.get_label()
get_label(item) == item.label.has /\ item.label.text # <<>>

\* faulty variant: the label is used as it is
replace_nothing(text) == text

\* .replace("_", "")
replace_underscore(text) == SelectSeq(text, LAMBDA c : c # "_")

\* " > "
Separator == <<" ", ">", " ">>

\* container.get_submenu() as a condition: a Gtk.Menu is true also when it
\* has no children (Gtk.Container.__bool__ of PyGObject)
get_submenu(item) == item.submenu

\* faulty variant: a key that is already there keeps its action
setdefault(d, key, value) ==
    [k \in DOMAIN d \cup {key} |-> IF k \in DOMAIN d THEN d[k] ELSE value]

\* result[path] = container.activate
setitem(d, key, value) ==
    [k \in DOMAIN d \cup {key} |-> IF k = key THEN value ELSE d[k]]

RECURSIVE crawl(_, _, _, _), crawl_submenu(_, _, _, _, _)
\* crawl(container, path), with the result so far
crawl(mb, pos, path, res) ==
    IF get_submenu(mb[pos])
    THEN crawl_submenu(mb, pos, 1, path, res)
    ELSE setitem(res, path, activate(pos))

\* for child in container.get_submenu(), from the i-th child on
crawl_submenu(mb, pos, i, path, res) ==
    LET child == Append(pos, i)
    IN  IF child \notin DOMAIN mb THEN res
        ELSE crawl_submenu(mb, pos, i + 1, path,
                 IF get_label(mb[child])
                 THEN crawl(mb, child,
                            path \o Separator
                                 \o replace_underscore(mb[child].label.text),
                            res)
                 ELSE res)

RECURSIVE run_from(_, _, _)
\* for child in menu_bar, from the i-th child on
run_from(mb, i, res) ==
    IF <<i>> \notin DOMAIN mb THEN res
    ELSE run_from(mb, i + 1,
             IF get_label(mb[<<i>>])
             THEN crawl(mb, <<i>>,
                        replace_underscore(mb[<<i>>].label.text), res)
             ELSE res)

\* ZimMenuBarCrawler.run
run(mb) == run_from(mb, 1, <<>>)

\* the positions where the host can put one more item: below the last
\* top-level item or below the last child of an item with a submenu
RECURSIVE FreeIndex(_, _, _)
FreeIndex(mb, pos, i) ==
    IF Append(pos, i) \in DOMAIN mb THEN FreeIndex(mb, pos, i + 1) ELSE i

FreePositions(mb) ==
    {<<FreeIndex(mb, <<>>, 1)>>}
        \cup {Append(pos, FreeIndex(mb, pos, 1)) :
                  pos \in {q \in DOMAIN mb : mb[q].submenu}}

\* the host's menu bar gets one more item
AddMenuItem(pos, label, submenu) ==
    /\ Cardinality(DOMAIN menu_bar) < MaxItems
    /\ pos \in FreePositions(menu_bar)
    /\ menu_bar' = [q \in DOMAIN menu_bar \cup {pos} |->
                       IF q = pos THEN MenuItem(label, submenu)
                       ELSE menu_bar[q]]
    /\ crawled' = [ran |-> FALSE, result |-> <<>>]
    /\ UNCHANGED <<store, open, history_whitelist, history_size, history,
                   op, prior, arg, ret, err, outcome, before, log, tracked,
                   following, mru, dialogVars, twoVars>>

\* _init_store: ZimMenuBarCrawler().run(self.window.menubar)
Crawl ==
    /\ ~crawled.ran
    /\ crawled' = [ran |-> TRUE, result |-> run(menu_bar)]
    /\ UNCHANGED <<menu_bar, store, open, history_whitelist, history_size,
                   history, op, prior, arg, ret, err, outcome, before, log,
                   tracked, following, mru, dialogVars, twoVars>>

NextCrawl ==
    \/ \E pos \in FreePositions(menu_bar), label \in MenuLabels,
          submenu \in BOOLEAN : AddMenuItem(pos, label, submenu)
    \/ Crawl

\* no menu item yet
InitCrawl ==
    /\ Init
    /\ store = File("absent", <<>>)

SpecCrawl == InitCrawl /\ [][NextCrawl]_vars

(***************************************************************************)
(* Two dialogs on one history file                                         *)
(*                                                                         *)
(* Each dialog has its own ZimDashHistory; every call runs to completion   *)
(* before the next one starts.                                             *)
(***************************************************************************)
Dialogs == {1, 2}

\* the menu both dialogs are constructed from
TwoWhitelist == Labels

\* largest history_size preference the two dialogs are opened with
MaxTwoSize == 2

TwoSizes == HISTORY_SIZE_MIN .. MaxTwoSize

NoHistory ==
    [open |-> FALSE, history_whitelist |-> {},
     history_size |-> HISTORY_SIZE_MIN, history |-> <<>>]

\* what the calls of the two dialogs leave alone
TwoFrame ==
    UNCHANGED <<open, history_whitelist, history_size, history, prior, arg,
                ret, err, before, log, tracked, following, mru, dialogVars,
                crawlVars>>

\* ZimDashHistory(HISTORY_FILE, size, whitelist) in dialog d; both dialogs
\* read the same history_size preference
TwoShow(d, size, whitelist) ==
    /\ ~sess[d].open
    /\ \A e \in Dialogs : sess[e].open => size = sess[e].history_size
    /\ sess' = [sess EXCEPT ![d] =
                   [open |-> TRUE, history_whitelist |-> whitelist,
                    history_size |-> size,
                    history |-> __init__(store, size, whitelist).history]]
    /\ store' = __init__(store, size, whitelist).store
    /\ who' = d
    /\ wrote' = wrote \ {d}
    /\ op' = "load"
    /\ outcome' = "none"
    /\ TwoFrame

\* next() in dialog d
TwoNext(d) ==
    /\ sess[d].open
    /\ sess' = [sess EXCEPT ![d].history = next(sess[d].history).history]
    /\ who' = d
    /\ op' = "next"
    /\ outcome' = "none"
    /\ UNCHANGED <<store, wrote>>
    /\ TwoFrame

\* previous() in dialog d
TwoPrevious(d) ==
    /\ sess[d].open
    /\ sess' = [sess EXCEPT ![d].history = previous(sess[d].history).history]
    /\ who' = d
    /\ op' = "previous"
    /\ outcome' = "none"
    /\ UNCHANGED <<store, wrote>>
    /\ TwoFrame

\* update(new_entry) in dialog d
TwoUpdate(d, new_entry, o) ==
    /\ sess[d].open
    /\ LET u == update(sess[d].history, store, sess[d].history_size,
                       sess[d].history_whitelist, new_entry, o)
       IN  /\ sess' = [sess EXCEPT ![d].history = u.history]
           /\ store' = u.store
           /\ outcome' = u.outcome
           /\ wrote' = IF u.outcome = "ok" THEN wrote \cup {d} ELSE wrote
    /\ who' = d
    /\ op' = "update"
    /\ TwoFrame

\* dialog d is closed
TwoDismiss(d) ==
    /\ sess[d].open
    /\ sess' = [sess EXCEPT ![d] = NoHistory]
    /\ who' = d
    /\ wrote' = wrote \ {d}
    /\ op' = "dismiss"
    /\ outcome' = "none"
    /\ UNCHANGED store
    /\ TwoFrame

NextTwo ==
    \/ \E d \in Dialogs, size \in TwoSizes : TwoShow(d, size, TwoWhitelist)
    \/ \E d \in Dialogs : TwoNext(d)
    \/ \E d \in Dialogs : TwoPrevious(d)
    \/ \E d \in Dialogs, new_entry \in Labels, o \in SaveOutcomes :
           TwoUpdate(d, new_entry, o)
    \/ \E d \in Dialogs : TwoDismiss(d)

InitTwo ==
    /\ store = File("absent", <<>>)
    /\ HistoryIdle
    /\ following = FALSE
    /\ mru = <<>>
    /\ DialogIdle
    /\ CrawlIdle
    /\ sess = [d \in Dialogs |-> NoHistory]
    /\ who = 0
    /\ wrote = {}

SpecTwo == InitTwo /\ [][NextTwo]_vars

(***************************************************************************)
(* Properties                                                              *)
(***************************************************************************)
\* C1: whatever the file held and whatever whitelist the session was
\* constructed with, every label of the in-memory record is in the
\* session's whitelist
C1_HistoryWithinWhitelist ==
    \A i \in 1..Len(history) : history[i] \in history_whitelist

\* a record loaded from a file that also holds a label outside the
\* whitelist, rotated and then changed by an update() whose write failed
C1_Witness ==
    /\ op = "update"
    /\ prior \in {"next", "previous"}
    /\ arg \in history_whitelist
    /\ outcome = "openfail"
    /\ store.kind = "list"
    /\ Range(store.items) \ history_whitelist # {}
    /\ Len(history) >= 2

\* C2: starting from an absent file, over any sequence of sessions, each
\* with its own capacity and whitelist, the record holds at most
\* history_size labels and no label twice
C2_BoundedDistinct ==
    /\ Len(history) <= history_size
    /\ Distinct(history)

\* a full record of two or more labels took a new label, while the file
\* holds a different list that an earlier update() wrote
C2_Witness ==
    /\ op = "update"
    /\ arg \in history_whitelist
    /\ arg \notin Range(before)
    /\ Len(before) = history_size
    /\ Len(history) = history_size
    /\ history_size >= 2
    /\ store.kind = "list"
    /\ store.items # history

\* C3: update(x) with a whitelisted x leaves the record equal to x followed
\* by the other entries in their previous order, cut to the first
\* history_size entries, and a write that succeeds leaves exactly that list
\* in the file; no other list is ever written
C3_UpdatePromotes ==
    (op = "update" /\ arg \in history_whitelist) =>
        /\ history = FirstN(<<arg>> \o Without(before, arg), history_size)
        /\ outcome = "ok" => store = File("list", history)
        /\ outcome = "dumpfail" => store.kind # "list"

\* from [a,b,c], update(b) gives [b,a,c], in memory and in the file
C3_Witness ==
    /\ op = "update"
    /\ arg = "b"
    /\ before = <<"a", "b", "c">>
    /\ history = <<"b", "a", "c">>
    /\ outcome = "ok"
    /\ store = File("list", <<"b", "a", "c">>)

\* index of the last update(x) in the log
LastUpdate(x) == CHOOSE i \in 1..Len(log) :
                     log[i] = x /\ \A j \in (i + 1)..Len(log) : log[j] # x

\* C4: from an empty record, after update() calls with whitelisted labels
\* only, the record holds the min(history_size, number of distinct labels)
\* most recently updated distinct labels, most recent update first
C4_MostRecentFirst ==
    tracked =>
        /\ Len(history) = Min(history_size, Cardinality(Range(log)))
        /\ Range(history) \subseteq Range(log)
        /\ \A i, j \in 1..Len(history) :
               i < j => LastUpdate(history[i]) > LastUpdate(history[j])
        /\ \A x \in Range(log) \ Range(history) :
               \A i \in 1..Len(history) :
                   LastUpdate(x) < LastUpdate(history[i])

\* history_size + 1 distinct labels were updated, one of them twice, and the
\* record is full
C4_Witness ==
    /\ tracked
    /\ history_size >= 2
    /\ Cardinality(Range(log)) = history_size + 1
    /\ Len(log) > Cardinality(Range(log))
    /\ Len(history) = history_size

Count(s, x) == Cardinality({i \in 1..Len(s) : s[i] = x})

Rotations == {"next", "previous"}

\* C5: next() and previous() undo each other: a previous() right after a
\* next(), and a next() right after a previous(), gives back the record as
\* it was before the pair and returns its first entry, the value current()
\* had; neither call adds or removes a label
C5_NextPreviousInverse ==
    [][/\ (op = "next" /\ op' = "previous") =>
              (history' = before /\ ret' = current(before))
       /\ (op = "previous" /\ op' = "next") =>
              (history' = before /\ ret' = current(before))
       /\ op' \in Rotations =>
              \A x \in Labels : Count(history', x) = Count(history, x)]_vars

\* previous() has just undone a next() on a record of three labels
C5_Witness ==
    /\ prior = "next"
    /\ op = "previous"
    /\ Len(history) = 3
    /\ Distinct(history)
    /\ before = rotate_left(history)
    /\ ret = history[1]

\* C6: update() with a label outside the whitelist changes neither the
\* record nor the file and raises nothing
C6_RejectedUpdateNoOp ==
    [][(op' = "update" /\ arg' \notin history_whitelist) =>
           (history' = history /\ store' = store /\ ~err')]_vars

\* a rejected update() on a non-empty record backed by a stored list
C6_Witness ==
    /\ op = "update"
    /\ arg \notin history_whitelist
    /\ history # <<>>
    /\ store.kind = "list"
    /\ store.items # <<>>

\* the entries of s that are in W, in the order of s
RECURSIVE Kept(_, _)
Kept(s, W) ==
    IF s = <<>> THEN <<>>
    ELSE IF Head(s) \in W THEN <<Head(s)>> \o Kept(Tail(s), W)
         ELSE Kept(Tail(s), W)

\* C7: constructed from a stored list of at most history_size labels, the
\* record is the stored list without the labels outside the whitelist, in
\* stored order, and no error is raised
C7_LoadFilters ==
    (op = "load" /\ store.kind = "list"
                 /\ Len(store.items) <= history_size) =>
        (history = Kept(store.items, history_whitelist) /\ ~err)

\* stored [a,b,c] with whitelist {a,b} gives [a,b]
C7_Witness ==
    /\ op = "load"
    /\ store = File("list", <<"a", "b", "c">>)
    /\ history_whitelist = {"a", "b"}
    /\ history_size = 3
    /\ history = <<"a", "b">>

Unusable == {"absent", "unreadable", "notjson", "nofield"}

\* C8: constructed from a file that is absent, unreadable or malformed, the
\* session starts without an error and with an empty record, and current(),
\* next() and previous() on the empty record return None
C8_UnusableFileGivesEmpty ==
    /\ (op = "load" /\ store.kind \in Unusable) =>
           (~err /\ history = <<>>)
    /\ (op \in {"current", "next", "previous"} /\ before = <<>>) =>
           (ret = None /\ history = <<>> /\ ~err)

\* next() on the record of a session constructed from a file without the
\* history member
C8_Witness ==
    /\ prior = "load"
    /\ op = "next"
    /\ store.kind = "nofield"
    /\ history_whitelist # {}
    /\ ret = None

\* C9: an update() with a whitelisted label whose write fails raises
\* nothing and leaves the record that a successful write leaves; the call
\* after it works on that record
C9_WriteFailureKeepsRecord ==
    [][/\ (op' = "update" /\ arg' \in history_whitelist /\ outcome' # "ok") =>
              /\ ~err'
              /\ history' = update(history, store, history_size,
                                   history_whitelist, arg', "ok").history
              /\ history'[1] = arg'
       /\ (op = "update" /\ arg \in history_whitelist /\ outcome # "ok") =>
              /\ op' = "current" => ret' = arg
              /\ op' = "next" => ret' = history[IF Len(history) = 1
                                                THEN 1 ELSE 2]
              /\ op' = "previous" => ret' = history[Len(history)]]_vars

\* next() after an update() that could not write its three labels (every
\* label is whitelisted, and no write of the session reached the file)
C9_Witness ==
    /\ prior = "update"
    /\ op = "next"
    /\ history_whitelist = Labels
    /\ Len(history) = 3
    /\ store.kind # "list"

\* C10: the file changes only in an update() with a whitelisted label;
\* construction, current(), next(), previous() and dismissing the dialog
\* leave it as it was
C10_OnlyUpdateWrites ==
    [][store' # store =>
           (op' = "update" /\ arg' \in history_whitelist)]_vars

\* a session on an absent file was navigated and dismissed, and the file
\* is still absent
C10_Witness ==
    /\ prior \in Rotations
    /\ op = "dismiss"
    /\ store.kind = "absent"

\* C15: update() is idempotent: a second update(x) right after an update(x)
\* leaves the record as the first one left it, and with the same result of
\* the write it leaves the file as the first one left it
C15_UpdateIdempotent ==
    [][(op = "update" /\ op' = "update" /\ arg' = arg) =>
           /\ history' = history
           /\ outcome' = outcome => store' = store]_vars

\* update(x) was called twice in a row (every label is whitelisted, so the
\* first call put x in front) on three labels, and the second call wrote
C15_Witness ==
    /\ prior = "update"
    /\ op = "update"
    /\ history_whitelist = Labels
    /\ arg = history[1]
    /\ before = history
    /\ Len(history) = 3
    /\ outcome = "ok"
    /\ store = File("list", history)

\* C18: constructed from a stored list with more whitelisted labels than
\* history_size, the record is the first history_size whitelisted labels of
\* the stored list, and current() is the first whitelisted stored label
C18_LoadKeepsMostRecent ==
    (op = "load" /\ store.kind = "list") =>
        /\ history = FirstN(Kept(store.items, history_whitelist),
                            history_size)
        /\ Kept(store.items, history_whitelist) # <<>> =>
               current(history) = Kept(store.items, history_whitelist)[1]

C17_EvictsLeastRecent ==
    [][(/\ following
        /\ op' = "update"
        /\ arg' \in history_whitelist
        /\ arg' \notin Range(history)
        /\ Len(history) = history_size
        /\ Range(mru) = Range(history)) =>
           /\ Range(history) \ Range(history') = {mru[Len(mru)]}
           /\ Range(FirstN(mru, history_size - 1)) \subseteq Range(history')
      ]_vars

\* C11: when the user confirms a text L that is a key of the mapping, the
\* dialog's action is the handle mapped to L and L is committed to the
\* history: current() is L, a write that succeeds leaves a list that starts
\* with L, and the action the host then calls is that handle
C11_ConfirmCommits ==
    [][/\ (dlg' \in {"confirm", "match"} /\ txt_search' \in DOMAIN entries) =>
              /\ result' = "OK"
              /\ action' = entries[txt_search']
              /\ current(history') = txt_search'
              /\ ~err'
              /\ outcome' = "ok" =>
                     (/\ store'.kind = "list"
                      /\ store'.items # <<>>
                      /\ store'.items[1] = txt_search')
       /\ dlg' = "return" =>
              (invoked' = entries[txt_search] /\ invoked' = action)]_vars

\* the user confirmed "b", the write put it in front of the two other
\* labels, and the host called the action of "b"
C11_Witness ==
    /\ dlg = "return"
    /\ prior = "update"
    /\ invoked = activate("b")
    /\ store = File("list", <<"b", "a", "c">>)

\* C12: when the user confirms a text that is no key of the mapping, no
\* action is set or called, the dialog gets no OK result and stays open,
\* and neither the record nor the file changes
C12_InvalidConfirmRejected ==
    [][(dlg' = "confirm" /\ txt_search \notin DOMAIN entries) =>
           /\ action' = None
           /\ invoked' = None
           /\ result' = "none"
           /\ open'
           /\ history' = history
           /\ store' = store
           /\ ~err']_vars

\* the label of a menu item that is gone was confirmed, with a record of
\* two labels
C12_Witness ==
    /\ dlg = "confirm"
    /\ result = "none"
    /\ txt_search \in Labels \ history_whitelist
    /\ Len(history) = 2
    /\ store.kind = "list"

\* C19: in a dialog with a loaded record of k > 0 labels, the first forward
\* event shows the first entry and does not rotate, the i-th forward event
\* in a row shows the entry at position (i-1) mod k of the loaded record,
\* and a backward event as first history event shows the last entry
C19_ForwardCycle ==
    /\ (dlg = "forward" /\ loaded # <<>> /\ nav[1] = "forward") =>
           /\ txt_search = loaded[((Len(nav) - 1) % Len(loaded)) + 1]
           /\ history[1] = txt_search
           /\ Len(nav) = 1 => history = loaded
    /\ (dlg = "backward" /\ loaded # <<>> /\ nav = <<"backward">>) =>
           /\ txt_search = loaded[Len(loaded)]
           /\ history[1] = txt_search

\* the fourth forward event in a row on three loaded labels shows the first
\* one again
C19_Witness ==
    /\ dlg = "forward"
    /\ Len(nav) = 4
    /\ nav[1] = "forward"
    /\ Len(loaded) = 3
    /\ txt_search = loaded[1]
    /\ history = loaded

\* the text of a label without its mnemonic underscores
RECURSIVE NoMnemonic(_)
NoMnemonic(text) ==
    IF text = <<>> THEN <<>>
    ELSE IF Head(text) = "_" THEN NoMnemonic(Tail(text))
         ELSE <<Head(text)>> \o NoMnemonic(Tail(text))

\* the labels on the way from the top to the item at pos, joined by " > "
RECURSIVE Breadcrumb(_, _)
Breadcrumb(mb, pos) ==
    IF Len(pos) = 1 THEN NoMnemonic(mb[pos].label.text)
    ELSE Breadcrumb(mb, SubSeq(pos, 1, Len(pos) - 1))
             \o <<" ", ">", " ">> \o NoMnemonic(mb[pos].label.text)

\* every item on the way from the top to pos, pos included, has a label
\* that is not empty
LabelledPath(mb, pos) ==
    \A i \in 1..Len(pos) :
        LET item == mb[SubSeq(pos, 1, i)]
        IN  item.label.has /\ item.label.text # <<>>

\* the items without submenu whose whole path is labelled
LabelledLeaves(mb) ==
    {pos \in DOMAIN mb : ~mb[pos].submenu /\ LabelledPath(mb, pos)}

\* C13: every key of the crawler's mapping is the breadcrumb of an item
\* without submenu whose whole path has non-empty labels, and its action is
\* that item's; an item without a usable label and the items below it give
\* no entry
C13_KeysAreLabelledLeaves ==
    crawled.ran =>
        \A key \in DOMAIN crawled.result :
            \E pos \in LabelledLeaves(menu_bar) :
                /\ key = Breadcrumb(menu_bar, pos)
                /\ crawled.result[key] = activate(pos)

\* a menu without label holds an item and a labelled top-level item stands
\* next to it: the crawl returns the entry of the labelled one alone
C13_Witness ==
    /\ crawled.ran
    /\ DOMAIN menu_bar = {<<1>>, <<1, 1>>, <<2>>}
    /\ ~get_label(menu_bar[<<1>>])
    /\ menu_bar[<<1>>].submenu
    /\ menu_bar[<<1, 1>>] = MenuItem(Label(<<"s">>), FALSE)
    /\ menu_bar[<<2>>] = MenuItem(Label(<<"f">>), FALSE)
    /\ DOMAIN crawled.result = {<<"f">>}

\* every item has children or an action: a submenu is never empty
EitherChildrenOrAction(mb) ==
    \A pos \in DOMAIN mb : mb[pos].submenu => Append(pos, 1) \in DOMAIN mb

\* C14, as claimed: in a menu bar whose items have children or an action,
\* every leaf with a labelled path has its breadcrumb in the mapping, mapped
\* to the leaf's own action
C14_EveryLeafOwnAction ==
    (crawled.ran /\ EitherChildrenOrAction(menu_bar)) =>
        /\ \A pos \in LabelledLeaves(menu_bar) :
               /\ Breadcrumb(menu_bar, pos) \in DOMAIN crawled.result
               /\ crawled.result[Breadcrumb(menu_bar, pos)] = activate(pos)
        /\ menu_bar = <<>> => crawled.result = <<>>

\* pos comes before other when the items are visited
RECURSIVE Earlier(_, _)
Earlier(pos, other) ==
    /\ pos # <<>>
    /\ other # <<>>
    /\ \/ Head(pos) < Head(other)
       \/ Head(pos) = Head(other) /\ Earlier(Tail(pos), Tail(other))

\* C14, amended: every such leaf has its breadcrumb in the mapping, mapped
\* to the action of the last leaf visited that has this breadcrumb, which is
\* its own action when no later leaf has the same breadcrumb; an empty menu
\* bar gives an empty mapping and a top-level leaf is keyed by its label
\* without underscores
C14_LastLeafWins ==
    (crawled.ran /\ EitherChildrenOrAction(menu_bar)) =>
        /\ \A pos \in LabelledLeaves(menu_bar) :
               LET key == Breadcrumb(menu_bar, pos)
                   same == {q \in LabelledLeaves(menu_bar) :
                                Breadcrumb(menu_bar, q) = key}
               IN  /\ key \in DOMAIN crawled.result
                   /\ \E q \in same :
                          /\ crawled.result[key] = activate(q)
                          /\ \A o \in same \ {q} : Earlier(o, q)
                   /\ Len(pos) = 1 =>
                          key = NoMnemonic(menu_bar[pos].label.text)
        /\ menu_bar = <<>> => crawled.result = <<>>

\* "_s" and "s" below "f": one key, f > s, with the action of the second
C14_Witness ==
    /\ crawled.ran
    /\ DOMAIN menu_bar = {<<1>>, <<1, 1>>, <<1, 2>>}
    /\ menu_bar[<<1>>] = MenuItem(Label(<<"f">>), TRUE)
    /\ menu_bar[<<1, 1>>] = MenuItem(Label(<<"_", "s">>), FALSE)
    /\ menu_bar[<<1, 2>>] = MenuItem(Label(<<"s">>), FALSE)
    /\ DOMAIN crawled.result = {<<"f", " ", ">", " ", "s">>}
    /\ crawled.result[<<"f", " ", ">", " ", "s">>] = activate(<<1, 2>>)

\* C20: with two dialogs on one file, once both have written the file with
\* an update(), the file holds, after every update() that writes, exactly
\* the record of the dialog that made it, and it changes in no other way to
\* another list
C20_LastWriterWins ==
    [][/\ (wrote' = Dialogs /\ op' = "update" /\ outcome' = "ok") =>
              store' = File("list", sess'[who'].history)
       /\ (wrote = Dialogs /\ store' # store /\ store'.kind = "list") =>
              (/\ op' = "update"
               /\ outcome' = "ok"
               /\ store' = File("list", sess'[who'].history))]_vars

\* both dialogs hold two labels or more, in records that differ in more
\* than their order, both have written, and the file holds the record of
\* the one that wrote last
C20_Witness ==
    /\ wrote = Dialogs
    /\ op = "update"
    /\ outcome = "ok"
    /\ Len(sess[1].history) >= 2
    /\ Len(sess[2].history) >= 2
    /\ Range(sess[1].history) # Range(sess[2].history)
    /\ store = File("list", sess[who].history)

====
